---- MODULE Spec2Model ----
(***************************************************************************)
(* The controller of controller_python/controller.py as a state machine:   *)
(* the SharedMemory channel wrapper, the trial sequencer, the frame-based  *)
(* win state machine and the 60 Hz loop() callback, together with the Tk   *)
(* callbacks (key press / release, buttons) that run between two ticks.    *)
(*                                                                         *)
(* Every Tk callback runs to completion before the next one starts, so     *)
(* each callback is one action.  The engine behind the shared memory is    *)
(* the environment: what a read returns and whether a channel call fails   *)
(* are inputs of the action that makes the call.                           *)
(***************************************************************************)
EXTENDS Integers, Sequences, FiniteSets, TLC

\* ------------------------------------------------------------------ bounds

\* Frame numbers the engine may report: 0, 1 and the frames from 60 to
\* 60 + MaxLate, so that differences just below, at and above the blank
\* duration, and regressions, all occur.
MaxLate == 1

\* Longest trial list load_trials returns (the shortest is the empty list of
\* a trial file without records).
NumTrials == 2

\* Longest trial list of the sequencer-only specification, and the number of
\* times it goes round the list.
MaxLen == 5

MaxRounds == 2

\* Most user inputs in effect at once: movement keys held down plus one-shot
\* events raised since the last tick (ticks are 16 ms apart).
MaxActive == 1

\* Liveness runs: the engine reports a win only before frame MaxFrame, and its
\* frame counter advances FrameStep frames at a time.
MaxFrame == 60

FrameStep == 20

\* --------------------------------------------------------------- constants

WIN_BLANK_DURATION_FRAMES == 60

PLAYING == "PLAYING"
WAITING_FOR_ANIMATION_END == "WAITING_FOR_ANIMATION_END"
BLANK_SCREEN_ACTIVE == "BLANK_SCREEN_ACTIVE"

WinState == {PLAYING, WAITING_FOR_ANIMATION_END, BLANK_SCREEN_ACTIVE}

\* The fields of DEFAULT_STATE the control logic reads (the others are only
\* displayed).
DEFAULT_STATE == [has_won |-> FALSE, is_animating |-> FALSE, frame_number |-> 0]

\* A trial configuration is identified by where it comes from: a line of the
\* trial file, DEFAULT_CONFIG, or the reset form of the window.
Trial(i) == [source |-> "trials.jsonl", line |-> i]

DEFAULT_CONFIG == [source |-> "DEFAULT_CONFIG", line |-> 0]

USER_PAYLOAD == [source |-> "form", line |-> 0]

Movements == {"rotate_left", "rotate_right", "zoom_in", "zoom_out"}

OneShots == {"check", "reset", "blank_screen", "stop_rendering", "resume_rendering"}

MovementKeys == {"left", "right", "up", "down"}

Keys == MovementKeys \cup {"space", "r", "b", "p", "o", "return", "kp_enter"}

KeyInput(key) ==
    CASE key = "left" -> "rotate_left"
      [] key = "right" -> "rotate_right"
      [] key = "up" -> "zoom_in"
      [] key = "down" -> "zoom_out"

Frames == {0, 1} \cup { WIN_BLANK_DURATION_FRAMES + d : d \in 0..MaxLate }

\* What the engine may have published: any snapshot.
Snapshots == [has_won : BOOLEAN, is_animating : BOOLEAN, frame_number : Frames]

\* Nothing written or pushed.
NoCmd == [none |-> "cmd"]

NoPush == [none |-> "push"]

\* ------------------------------------------------------------------- state

VARIABLES
    inputs,                    \* self.inputs: held movement keys
    pending_check,             \* self.pending_check
    pending_reset,             \* self.pending_reset
    pending_blank_screen,      \* self.pending_blank_screen
    pending_stop_rendering,    \* self.pending_stop_rendering
    pending_resume_rendering,  \* self.pending_resume_rendering
    state,                     \* self.state: "stopped" | "running"
    inner,                     \* self.shm_wrapper.inner is not None
    trials,                    \* self.trials
    current_trial_index,       \* self.current_trial_index
    win_state,                 \* self.win_state
    blank_start_frame,         \* self.blank_start_frame
    \* channel traffic of the step just taken
    has_won,                   \* has_won of the snapshot loop() worked on (line 704)
    served_default,            \* that snapshot was the DEFAULT_STATE of a failed read
    cmd,                       \* frame loop() handed to write_commands, or NoCmd
    pushed,                    \* configuration handed to write_reset_config, or NoPush
    loop_scheduled,            \* an after(16, self.loop) call is outstanding
    \* history
    triggered,                 \* one-shot events raised since the last frame
    staged,                    \* configuration staged by the last win sequence
    seq_start,                 \* index the sequencer started from
    seq_count,                 \* advances made since
    engine_frame               \* frame_number the engine reports (liveness runs)

vars == << inputs, pending_check, pending_reset, pending_blank_screen,
           pending_stop_rendering, pending_resume_rendering, state, inner,
           trials, current_trial_index, win_state, blank_start_frame,
           has_won, served_default, cmd, pushed, loop_scheduled, triggered,
           staged, seq_start, seq_count, engine_frame >>

\* ----------------------------------------------------------- SharedMemory

\* One fault bit per channel call: with ok = FALSE the connect attempt fails
\* when the channel is disconnected and the operation raises when it is
\* connected.  (A connect that succeeds followed by an operation that raises
\* leaves the same state as a connect that fails.)

\* SharedMemory.connect
connect(ok) == ok

\* Each operation returns the wrapper's new `inner`, whether it called
\* connect (attempted) and whether an exception left it (raised): the
\* try/except blocks of lines 126-135, 141-156 and 162-177 catch Exception.

\* Mutant: a failing read is not caught.
read_game_state_Propagate(in, ok, snap) ==
    LET in1 == IF in THEN in ELSE connect(ok)
    IN  IF ~in1
        THEN [inner |-> FALSE, data |-> DEFAULT_STATE, fallback |-> TRUE,
              attempted |-> ~in, raised |-> FALSE]
        ELSE IF ok
        THEN [inner |-> TRUE, data |-> snap, fallback |-> FALSE,
              attempted |-> ~in, raised |-> FALSE]
        ELSE [inner |-> TRUE, data |-> DEFAULT_STATE, fallback |-> TRUE,
              attempted |-> ~in, raised |-> TRUE]

\* SharedMemory.read_game_state: data = DEFAULT_STATE.copy() updated with the
\* engine's snapshot, or DEFAULT_STATE.copy() when there is none (fallback).
read_game_state(in, ok, snap) ==
    LET in1 == IF in THEN in ELSE connect(ok)
    IN  IF ~in1
        THEN [inner |-> FALSE, data |-> DEFAULT_STATE, fallback |-> TRUE,
              attempted |-> ~in, raised |-> FALSE]
        ELSE IF ok
        THEN [inner |-> TRUE, data |-> snap, fallback |-> FALSE,
              attempted |-> ~in, raised |-> FALSE]
        ELSE [inner |-> FALSE, data |-> DEFAULT_STATE, fallback |-> TRUE,
              attempted |-> ~in, raised |-> FALSE]

\* Mutant: a failed write leaves the wrapper connected.
write_commands_StayConnected(in, ok) ==
    LET in1 == IF in THEN in ELSE connect(ok)
    IN  [inner |-> in1, landed |-> in1 /\ ok, attempted |-> ~in, raised |-> FALSE]

\* SharedMemory.write_commands: landed is whether the frame was written.
write_commands(in, ok) ==
    LET in1 == IF in THEN in ELSE connect(ok)
    IN  IF ~in1
        THEN [inner |-> FALSE, landed |-> FALSE, attempted |-> ~in, raised |-> FALSE]
        ELSE IF ok
        THEN [inner |-> TRUE, landed |-> TRUE, attempted |-> ~in, raised |-> FALSE]
        ELSE [inner |-> FALSE, landed |-> FALSE, attempted |-> ~in, raised |-> FALSE]

\* SharedMemory.write_reset_config: result is the value returned.
write_reset_config(in, ok) ==
    LET in1 == IF in THEN in ELSE connect(ok)
    IN  IF ~in1
        THEN [inner |-> FALSE, result |-> FALSE, attempted |-> ~in, raised |-> FALSE]
        ELSE IF ok
        THEN [inner |-> TRUE, result |-> TRUE, attempted |-> ~in, raised |-> FALSE]
        ELSE [inner |-> FALSE, result |-> FALSE, attempted |-> ~in, raised |-> FALSE]

\* ---------------------------------------------------------- trial sequencer

\* MonkeyGameController.get_current_trial
get_current_trial(ts, idx) ==
    IF Len(ts) = 0 THEN DEFAULT_CONFIG ELSE ts[(idx % Len(ts)) + 1]

\* Mutant: the index stops at the last trial instead of wrapping.
next_index_Saturate(ts, idx) ==
    IF idx + 1 >= Len(ts) THEN idx ELSE idx + 1

\* The index update of advance_to_next_trial and of loop() line 740.
next_index(ts, idx) == (idx + 1) % Len(ts)

\* MonkeyGameController.advance_to_next_trial: the new index.
advance_to_next_trial(ts, idx) == next_index(ts, idx)

\* -------------------------------------------------------- win state machine

\* Mutant: the blank duration is never met.
BlankDurationMet_Never(current_frame, start_frame) == FALSE

\* loop() line 732: the blank duration test.
BlankDurationMet(current_frame, start_frame) ==
    current_frame - start_frame >= WIN_BLANK_DURATION_FRAMES

\* The one-shot flags each transition raises (loop() lines 723-725, 736-737).
BlankEntryFlags == {"reset", "blank_screen", "stop_rendering"}

BlankExitFlags == {"blank_screen", "resume_rendering"}

\* No transition taken.
Stay(ws, bsf, idx) ==
    [win_state |-> ws, blank_start_frame |-> bsf, current_trial_index |-> idx,
     raised |-> {}, push |-> NoPush, exception |-> FALSE]

\* Mutant: the reset is issued as soon as the win is seen.
OnWin_EagerReset(ws, bsf, idx) ==
    [Stay(ws, bsf, idx) EXCEPT !.win_state = WAITING_FOR_ANIMATION_END,
                               !.raised = {"reset"}]

\* loop() lines 710-712: the win is seen.
OnWin(ws, bsf, idx) ==
    [Stay(ws, bsf, idx) EXCEPT !.win_state = WAITING_FOR_ANIMATION_END]

\* Mutant: the current trial is staged again.
StagedTrial_Current(ts, idx) == ts[idx + 1]

\* loop() lines 717-720: the trial staged for the reset.
StagedTrial(ts, idx) == ts[next_index(ts, idx) + 1]

\* Mutant: the trial index is advanced when the next trial is staged.
OnAnimationEnd_Advance(ws, bsf, idx, ts, current_frame) ==
    IF Len(ts) = 0
    THEN [Stay(ws, bsf, idx) EXCEPT !.exception = TRUE]
    ELSE [win_state |-> BLANK_SCREEN_ACTIVE,
          blank_start_frame |-> current_frame,
          current_trial_index |-> next_index(ts, idx),
          raised |-> BlankEntryFlags,
          push |-> StagedTrial(ts, idx),
          exception |-> FALSE]

\* loop() lines 714-728: the animation is over.  On an empty trial list
\* line 718 raises ZeroDivisionError before anything is changed.
OnAnimationEnd(ws, bsf, idx, ts, current_frame) ==
    IF Len(ts) = 0
    THEN [Stay(ws, bsf, idx) EXCEPT !.exception = TRUE]
    ELSE [win_state |-> BLANK_SCREEN_ACTIVE,
          blank_start_frame |-> current_frame,
          current_trial_index |-> idx,
          raised |-> BlankEntryFlags,
          push |-> StagedTrial(ts, idx),
          exception |-> FALSE]

\* Mutant: the trial index is advanced without wrapping.
OnBlankDone_NoWrap(ws, bsf, idx, ts) ==
    [win_state |-> PLAYING,
     blank_start_frame |-> bsf,
     current_trial_index |-> idx + 1,
     raised |-> BlankExitFlags,
     push |-> NoPush,
     exception |-> FALSE]

\* Mutant: the trial index is not advanced.
OnBlankDone_NoAdvance(ws, bsf, idx, ts) ==
    [win_state |-> PLAYING,
     blank_start_frame |-> bsf,
     current_trial_index |-> idx,
     raised |-> BlankExitFlags,
     push |-> NoPush,
     exception |-> FALSE]

\* loop() lines 732-743: the blank duration is over.  On an empty trial list
\* line 740 raises ZeroDivisionError after the flags of lines 736-737 are set.
OnBlankDone(ws, bsf, idx, ts) ==
    IF Len(ts) = 0
    THEN [Stay(ws, bsf, idx) EXCEPT !.raised = BlankExitFlags, !.exception = TRUE]
    ELSE [win_state |-> PLAYING,
          blank_start_frame |-> bsf,
          current_trial_index |-> next_index(ts, idx),
          raised |-> BlankExitFlags,
          push |-> NoPush,
          exception |-> FALSE]

\* Mutant: a win seen while waiting for the animation starts the wait again,
\* and a win seen during the blank screen aborts it.
WinMachine_Refire(ws, bsf, idx, ts, gs) ==
    IF gs.has_won THEN OnWin(ws, bsf, idx)
    ELSE IF ws = WAITING_FOR_ANIMATION_END /\ ~gs.is_animating
    THEN OnAnimationEnd(ws, bsf, idx, ts, gs.frame_number)
    ELSE IF ws = BLANK_SCREEN_ACTIVE /\ BlankDurationMet(gs.frame_number, bsf)
    THEN OnBlankDone(ws, bsf, idx, ts)
    ELSE Stay(ws, bsf, idx)

\* loop() lines 708-743: one step of the win state machine on the snapshot gs.
\* raised: the pending flags set; push: the configuration handed to
\* push_trial_config; exception: the step raised.
WinMachine(ws, bsf, idx, ts, gs) ==
    IF ws = PLAYING THEN
        IF gs.has_won THEN OnWin(ws, bsf, idx) ELSE Stay(ws, bsf, idx)
    ELSE IF ws = WAITING_FOR_ANIMATION_END THEN
        IF ~gs.is_animating
        THEN OnAnimationEnd(ws, bsf, idx, ts, gs.frame_number)
        ELSE Stay(ws, bsf, idx)
    ELSE
        IF BlankDurationMet(gs.frame_number, bsf)
        THEN OnBlankDone(ws, bsf, idx, ts)
        ELSE Stay(ws, bsf, idx)

\* ------------------------------------------------------------ command frame

\* Mutant: movement is gated by the run mode only.
MovementFlag_NoWinGate(st, ws, held) ==
    IF st = "running" THEN held ELSE FALSE

\* Mutant: movement is gated by the win state only.
MovementFlag_NoRunGate(st, ws, held) ==
    IF ws = PLAYING THEN held ELSE FALSE

\* loop() lines 828-835: a movement flag is sent only when the controller is
\* running and the win state is PLAYING.
MovementFlag(st, ws, held) ==
    IF st = "running" /\ ws = PLAYING THEN held ELSE FALSE

\* loop() lines 822-847: the frame handed to write_commands.
CommandFrame(st, ws, inp, chk, rst, blk, stp, rsm) ==
    [rotate_left |-> MovementFlag(st, ws, inp["rotate_left"]),
     rotate_right |-> MovementFlag(st, ws, inp["rotate_right"]),
     zoom_in |-> MovementFlag(st, ws, inp["zoom_in"]),
     zoom_out |-> MovementFlag(st, ws, inp["zoom_out"]),
     check |-> chk,
     reset |-> rst,
     blank_screen |-> blk,
     stop_rendering |-> stp,
     resume_rendering |-> rsm]

\* Mutant: the pending flags are not cleared at the end of the tick.
ClearPending_Keep(flag) == flag

\* loop() lines 874-878: a pending flag after the frame was handed over.
ClearPending(flag) == FALSE

\* -------------------------------------------------------------------- Init

\* The first n lines of the trial file.
TrialList(n) == [i \in 1..n |-> Trial(i)]

\* load_trials: the n records of the trial file, none when the file has no
\* record; [DEFAULT_CONFIG] when reading or parsing the file raises.
load_trials(readable, n) ==
    IF readable THEN TrialList(n) ELSE << DEFAULT_CONFIG >>

\* What load_trials can return.
LoadedTrials == { load_trials(readable, n) : readable \in BOOLEAN, n \in 0..NumTrials }

Init ==
    /\ inputs = [m \in Movements |-> FALSE]
    /\ pending_check = FALSE
    /\ pending_reset = FALSE
    /\ pending_blank_screen = FALSE
    /\ pending_stop_rendering = FALSE
    /\ pending_resume_rendering = FALSE
    /\ state = "stopped"
    /\ inner \in BOOLEAN
    /\ trials \in LoadedTrials
    /\ current_trial_index = 0
    /\ win_state = PLAYING
    /\ blank_start_frame = 0
    /\ has_won = FALSE
    /\ served_default = FALSE
    /\ cmd = NoCmd
    /\ pushed = NoPush
    /\ loop_scheduled = TRUE
    /\ triggered = {}
    /\ staged = NoPush
    /\ seq_start = 0
    /\ seq_count = 0
    /\ engine_frame = 0

\* -------------------------------------------------------------------- loop

\* What a read can meet: a fault, or any snapshot.
ReadInputs ==
    {[ok |-> FALSE, snap |-> DEFAULT_STATE]}
        \cup {[ok |-> TRUE, snap |-> s] : s \in Snapshots}

\* loop() lines 717-720: the push of the staged trial, if the machine step m
\* stages one, on the channel as the read r left it: what write_reset_config
\* did, or the wrapper untouched when nothing is staged.
PushStaged(r, m, push_ok) ==
    IF m.push = NoPush
    THEN [inner |-> r.inner, raised |-> FALSE]
    ELSE write_reset_config(r.inner, push_ok)

\* loop() lines 822-878: the frame of the tick, after the read r, the machine
\* step m, the push p and the write w.  exception: the tick raised, in the
\* win state machine or in a channel call, and did nothing after that.
LoopAfterWrite(r, m, p, w) ==
    [exception |-> m.exception \/ p.raised \/ w.raised,
     has_won |-> r.data.has_won,
     served_default |-> r.fallback,
     inner |-> IF m.exception THEN r.inner
               ELSE IF p.raised THEN p.inner
               ELSE w.inner,
     win_state |-> m.win_state,
     blank_start_frame |-> m.blank_start_frame,
     current_trial_index |-> m.current_trial_index,
     cmd |-> IF m.exception \/ p.raised THEN NoCmd
             ELSE CommandFrame(state, m.win_state, inputs,
                    pending_check,
                    pending_reset \/ "reset" \in m.raised,
                    pending_blank_screen \/ "blank_screen" \in m.raised,
                    pending_stop_rendering \/ "stop_rendering" \in m.raised,
                    pending_resume_rendering \/ "resume_rendering" \in m.raised),
     pushed |-> m.push,
     raised |-> m.raised]

\* loop() lines 837-847: the write of the frame, on the channel as the push
\* left it.
LoopAfterPush(r, m, p, write_ok) ==
    LoopAfterWrite(r, m, p, write_commands(p.inner, write_ok))

\* loop() lines 717-720: the push, after the read r and the machine step m.
LoopAfterMachine(r, m, push_ok, write_ok) ==
    LoopAfterPush(r, m, PushStaged(r, m, push_ok), write_ok)

\* loop() lines 704-743: the machine step on the data the read r returned.
LoopAfterRead(r, push_ok, write_ok) ==
    LoopAfterMachine(r,
        IF r.raised
        THEN [Stay(win_state, blank_start_frame, current_trial_index)
                EXCEPT !.exception = TRUE]
        ELSE WinMachine(win_state, blank_start_frame, current_trial_index, trials,
                        r.data),
        push_ok, write_ok)

\* MonkeyGameController.loop, lines 701-878: what one tick computes, given
\* what the read meets (rd) and whether the push of the staged trial and the
\* write of the frame go through.
LoopResult(rd, push_ok, write_ok) ==
    LoopAfterRead(read_game_state(inner, rd.ok, rd.snap), push_ok, write_ok)

\* MonkeyGameController.loop: one tick.  A tick that raises leaves the loop
\* unscheduled (line 880 is not reached) and the pending flags as the machine
\* left them; the others clear the pending flags and schedule the next tick.
LoopStep(rd, push_ok, write_ok) ==
    \E res \in {LoopResult(rd, push_ok, write_ok)} :
        /\ loop_scheduled
        /\ has_won' = res.has_won
        /\ served_default' = res.served_default
        /\ inner' = res.inner
        /\ win_state' = res.win_state
        /\ blank_start_frame' = res.blank_start_frame
        /\ current_trial_index' = res.current_trial_index
        /\ cmd' = res.cmd
        /\ pushed' = res.pushed
        /\ staged' = IF res.pushed = NoPush THEN staged ELSE res.pushed
        /\ IF res.exception
           THEN /\ loop_scheduled' = FALSE
                /\ pending_check' = pending_check
                /\ pending_reset' = (pending_reset \/ "reset" \in res.raised)
                /\ pending_blank_screen' =
                       (pending_blank_screen \/ "blank_screen" \in res.raised)
                /\ pending_stop_rendering' =
                       (pending_stop_rendering \/ "stop_rendering" \in res.raised)
                /\ pending_resume_rendering' =
                       (pending_resume_rendering \/ "resume_rendering" \in res.raised)
                /\ UNCHANGED triggered
           ELSE /\ pending_check' = ClearPending(pending_check)
                /\ pending_reset' = ClearPending(pending_reset)
                /\ pending_blank_screen' = ClearPending(pending_blank_screen)
                /\ pending_stop_rendering' = ClearPending(pending_stop_rendering)
                /\ pending_resume_rendering' = ClearPending(pending_resume_rendering)
                /\ triggered' = {}
                /\ loop_scheduled' = TRUE
        /\ UNCHANGED << inputs, state, trials, seq_start,
                    seq_count, engine_frame >>

\* What the push of a tick can meet: nothing when the tick pushes nothing.
PushInputs(rd) ==
    IF WinMachine(win_state, blank_start_frame, current_trial_index, trials,
                  read_game_state(inner, rd.ok, rd.snap).data).push = NoPush
    THEN {TRUE} ELSE BOOLEAN

\* The 16 ms timer fires.
loop ==
    \E rd \in ReadInputs, write_ok \in BOOLEAN :
        \E push_ok \in PushInputs(rd) : LoopStep(rd, push_ok, write_ok)

\* ----------------------------------------------------------- Tk callbacks

\* A callback other than loop() reads no snapshot and writes no frame.
NoFrame == has_won' = FALSE /\ served_default' = FALSE /\ cmd' = NoCmd

\* MonkeyGameController.toggle_state
toggle_state ==
    /\ state' = IF state = "stopped" THEN "running" ELSE "stopped"
    /\ pushed' = NoPush
    /\ NoFrame
    /\ UNCHANGED << inputs, pending_check, pending_reset, pending_blank_screen,
                    pending_stop_rendering, pending_resume_rendering, inner,
                    trials, current_trial_index, win_state, blank_start_frame,
                    loop_scheduled, triggered, staged, seq_start,
                    seq_count, engine_frame >>

\* trigger_check line 579: the check is accepted.
CheckAccepted(st, ws) == st = "running" /\ ws = PLAYING

\* MonkeyGameController.trigger_check
trigger_check ==
    /\ pending_check' = IF CheckAccepted(state, win_state) THEN TRUE ELSE pending_check
    /\ triggered' = IF CheckAccepted(state, win_state)
                    THEN triggered \cup {"check"} ELSE triggered
    /\ pushed' = NoPush
    /\ NoFrame
    /\ UNCHANGED << inputs, pending_reset, pending_blank_screen,
                    pending_stop_rendering, pending_resume_rendering, state, inner,
                    trials, current_trial_index, win_state, blank_start_frame,
                    loop_scheduled, staged, seq_start,
                    seq_count, engine_frame >>

\* Mutant: the form is pushed whether or not it is valid.
push_reset_config_Unvalidated(in, valid, ok) ==
    [inner |-> write_reset_config(in, ok).inner,
     result |-> write_reset_config(in, ok).result,
     pushed |-> USER_PAYLOAD]

\* MonkeyGameController.push_reset_config: valid is whether
\* collect_reset_payload accepts the form's contents; the new `inner`, the
\* value returned and the configuration handed to the channel.
push_reset_config(in, valid, ok) ==
    IF ~valid
    THEN [inner |-> in, result |-> FALSE, pushed |-> NoPush]
    ELSE [inner |-> write_reset_config(in, ok).inner,
          result |-> write_reset_config(in, ok).result,
          pushed |-> USER_PAYLOAD]

\* MonkeyGameController.trigger_reset, on a form that collect_reset_payload
\* accepts or not (valid) and a channel that takes the push or not (ok).
ResetAttempt(valid, ok) ==
    \E p \in {push_reset_config(inner, valid, ok)} :
        /\ inner' = p.inner
        /\ pushed' = p.pushed
        /\ pending_reset' = IF p.result THEN TRUE ELSE pending_reset
        /\ win_state' = IF p.result THEN PLAYING ELSE win_state
        /\ triggered' = IF p.result THEN triggered \cup {"reset"} ELSE triggered
        /\ NoFrame
        /\ UNCHANGED << inputs, pending_check, pending_blank_screen,
                        pending_stop_rendering, pending_resume_rendering, state,
                        trials, current_trial_index, blank_start_frame,
                        loop_scheduled, staged, seq_start,
                    seq_count, engine_frame >>

\* MonkeyGameController.trigger_reset
trigger_reset == \E valid \in BOOLEAN, ok \in BOOLEAN : ResetAttempt(valid, ok)

\* on_key_press lines 667-675: the B, P and O keys.
KeyFlag(key) ==
    CASE key = "b" -> "blank_screen"
      [] key = "p" -> "stop_rendering"
      [] key = "o" -> "resume_rendering"

\* on_key_press line 654: the keys handled only in the PLAYING win state.
KeyProcessed(ws) == ws = PLAYING

\* MonkeyGameController.on_key_press
on_key_press(key) ==
    IF KeyProcessed(win_state) /\ key \in MovementKeys THEN
        /\ inputs' = [inputs EXCEPT ![KeyInput(key)] = TRUE]
        /\ pushed' = NoPush
        /\ NoFrame
        /\ UNCHANGED << pending_check, pending_reset, pending_blank_screen,
                        pending_stop_rendering, pending_resume_rendering, state,
                        inner, trials, current_trial_index, win_state,
                        blank_start_frame, loop_scheduled, triggered, staged, seq_start,
                    seq_count, engine_frame >>
    ELSE IF KeyProcessed(win_state) /\ key = "space" THEN trigger_check
    ELSE IF KeyProcessed(win_state) /\ key = "r" THEN trigger_reset
    ELSE IF KeyProcessed(win_state) /\ key \in {"b", "p", "o"} THEN
        /\ pending_blank_screen' = (pending_blank_screen \/ key = "b")
        /\ pending_stop_rendering' = (pending_stop_rendering \/ key = "p")
        /\ pending_resume_rendering' = (pending_resume_rendering \/ key = "o")
        /\ triggered' = triggered \cup {KeyFlag(key)}
        /\ pushed' = NoPush
        /\ NoFrame
        /\ UNCHANGED << inputs, pending_check, pending_reset, state, inner, trials,
                        current_trial_index, win_state, blank_start_frame,
                        loop_scheduled, staged, seq_start,
                    seq_count, engine_frame >>
    ELSE IF key \in {"return", "kp_enter"} THEN toggle_state
    ELSE
        /\ pushed' = NoPush
        /\ NoFrame
        /\ UNCHANGED << inputs, pending_check, pending_reset, pending_blank_screen,
                        pending_stop_rendering, pending_resume_rendering, state,
                        inner, trials, current_trial_index, win_state,
                        blank_start_frame, loop_scheduled, triggered, staged, seq_start,
                    seq_count, engine_frame >>

\* MonkeyGameController.on_key_release
on_key_release(key) ==
    /\ inputs' = IF key \in MovementKeys
                 THEN [inputs EXCEPT ![KeyInput(key)] = FALSE] ELSE inputs
    /\ pushed' = NoPush
    /\ NoFrame
    /\ UNCHANGED << pending_check, pending_reset, pending_blank_screen,
                    pending_stop_rendering, pending_resume_rendering, state, inner,
                    trials, current_trial_index, win_state, blank_start_frame,
                    loop_scheduled, triggered, staged, seq_start,
                    seq_count, engine_frame >>

\* The user: at most MaxActive inputs are in effect at once.
HeldCount == Cardinality({m \in Movements : inputs[m]})

PendingCount ==
    Cardinality({f \in OneShots :
        \/ f = "check" /\ pending_check
        \/ f = "reset" /\ pending_reset
        \/ f = "blank_screen" /\ pending_blank_screen
        \/ f = "stop_rendering" /\ pending_stop_rendering
        \/ f = "resume_rendering" /\ pending_resume_rendering})

UserMayAct == HeldCount + PendingCount < MaxActive

UserMayPress(key) ==
    key \in MovementKeys \cup {"space", "r", "b", "p", "o"} => UserMayAct

KeyPress == \E key \in Keys : UserMayPress(key) /\ on_key_press(key)

ButtonToggle == toggle_state

ButtonCheck == UserMayAct /\ trigger_check

ButtonReset == UserMayAct /\ trigger_reset

KeyRelease == \E key \in Keys : on_key_release(key)

Next ==
    \/ loop
    \/ KeyPress
    \/ KeyRelease
    \/ ButtonToggle
    \/ ButtonCheck
    \/ ButtonReset

Spec == Init /\ [][Next]_vars

\* ------------------------------------------------- the sequencer on its own

\* Any trial list of 1..MaxLen trials and any index into it; the rest of the
\* controller as constructed.
SeqInit ==
    /\ inputs = [m \in Movements |-> FALSE]
    /\ pending_check = FALSE
    /\ pending_reset = FALSE
    /\ pending_blank_screen = FALSE
    /\ pending_stop_rendering = FALSE
    /\ pending_resume_rendering = FALSE
    /\ state = "stopped"
    /\ inner = FALSE
    /\ trials \in { TrialList(n) : n \in 1..MaxLen }
    /\ current_trial_index \in 0..(Len(trials) - 1)
    /\ win_state = PLAYING
    /\ blank_start_frame = 0
    /\ has_won = FALSE
    /\ served_default = FALSE
    /\ cmd = NoCmd
    /\ pushed = NoPush
    /\ loop_scheduled = TRUE
    /\ triggered = {}
    /\ staged = NoPush
    /\ seq_start = current_trial_index
    /\ seq_count = 0
    /\ engine_frame = 0

SeqUnchanged ==
    UNCHANGED << inputs, pending_check, pending_reset, pending_blank_screen,
                 pending_stop_rendering, pending_resume_rendering, state, inner,
                 trials, win_state, blank_start_frame, has_won, served_default,
                 cmd, pushed, loop_scheduled, triggered, staged, seq_start,
                 engine_frame >>

\* advance_to_next_trial is called.
SeqAdvance ==
    /\ seq_count < MaxRounds * Len(trials)
    /\ current_trial_index' = advance_to_next_trial(trials, current_trial_index)
    /\ seq_count' = seq_count + 1
    /\ SeqUnchanged

\* loop() lines 739-741: the index is advanced at the end of a blank screen.
SeqCommit ==
    /\ seq_count < MaxRounds * Len(trials)
    /\ current_trial_index' =
            OnBlankDone(BLANK_SCREEN_ACTIVE, blank_start_frame,
                        current_trial_index, trials).current_trial_index
    /\ seq_count' = seq_count + 1
    /\ SeqUnchanged

SeqNext == SeqAdvance \/ SeqCommit

SpecSeq == SeqInit /\ [][SeqNext]_vars

\* ------------------------------------------- the win sequence under fairness

\* The engine renders FrameStep more frames.  The counter is followed up to
\* MaxFrame, and beyond it for as long as a blank screen is waiting for it.
EngineAdvance ==
    /\ \/ engine_frame < MaxFrame
       \/ /\ win_state = BLANK_SCREEN_ACTIVE
          /\ engine_frame - blank_start_frame < WIN_BLANK_DURATION_FRAMES
    /\ engine_frame' = engine_frame + FrameStep
    /\ pushed' = NoPush
    /\ NoFrame
    /\ UNCHANGED << inputs, pending_check, pending_reset, pending_blank_screen,
                    pending_stop_rendering, pending_resume_rendering, state, inner,
                    trials, current_trial_index, win_state, blank_start_frame,
                    loop_scheduled, triggered, staged, seq_start, seq_count >>

\* The snapshots the engine can publish at its current frame.
LiveSnapshots ==
    [has_won : IF engine_frame < MaxFrame THEN BOOLEAN ELSE {FALSE},
     is_animating : BOOLEAN,
     frame_number : {engine_frame}]

\* What a read can meet: a snapshot of the engine at its current frame, or a
\* fault; no fault during the blank screen, where the default snapshot's
\* frame_number 0 would be a regression of the frame observed.
LiveReadInputs ==
    {[ok |-> TRUE, snap |-> s] : s \in LiveSnapshots}
        \cup IF win_state = BLANK_SCREEN_ACTIVE
             THEN {}
             ELSE {[ok |-> FALSE, snap |-> DEFAULT_STATE]}

\* The 16 ms timer fires.
LiveTick ==
    \E rd \in LiveReadInputs, write_ok \in BOOLEAN :
        \E push_ok \in PushInputs(rd) : LoopStep(rd, push_ok, write_ok)

\* A tick in WAITING_FOR_ANIMATION_END that observes the animation over.
TickAnimationOver ==
    /\ win_state = WAITING_FOR_ANIMATION_END
    /\ \E rd \in LiveReadInputs, write_ok \in BOOLEAN :
          /\ ~read_game_state(inner, rd.ok, rd.snap).data.is_animating
          /\ \E push_ok \in PushInputs(rd) : LoopStep(rd, push_ok, write_ok)

LiveNext == LiveTick \/ EngineAdvance

\* The timer keeps firing while a tick is scheduled (after(16, self.loop)),
\* the engine keeps rendering, and the end of the animation is eventually
\* observed.
SpecLive ==
    /\ Init
    /\ [][LiveNext]_vars
    /\ WF_vars(LiveTick)
    /\ WF_vars(EngineAdvance)
    /\ WF_vars(TickAnimationOver)

\* ================================================================== claims

\* The pending flag of a one-shot.
Pending(f) ==
    CASE f = "check" -> pending_check
      [] f = "reset" -> pending_reset
      [] f = "blank_screen" -> pending_blank_screen
      [] f = "stop_rendering" -> pending_stop_rendering
      [] f = "resume_rendering" -> pending_resume_rendering

\* The snapshot a tick works on when its read meets rd.
ReadData(rd) == read_game_state(inner, rd.ok, rd.snap).data

\* The step is a tick that handed a frame to the channel.
Published == cmd' # NoCmd

\* The one-shot flags the win state machine raises in this step.
MachineRaised ==
    IF win_state = WAITING_FOR_ANIMATION_END /\ win_state' = BLANK_SCREEN_ACTIVE
    THEN BlankEntryFlags
    ELSE IF win_state = BLANK_SCREEN_ACTIVE /\ win_state' = PLAYING /\ Published
    THEN BlankExitFlags
    ELSE {}

\* C1: a one-shot flag is true on a published frame only for an event (of the
\* user or of the win state machine) raised since the previous published
\* frame: each event is published at most once, and the frame after it carries
\* the flag only if a new event was raised.
C1_OneShotOncePerTrigger ==
    [][Published =>
        \A f \in OneShots : cmd'[f] => (f \in triggered \/ f \in MachineRaised)]_vars

\* A frame was published with the check flag of a user event.
C1_Witness == cmd # NoCmd /\ cmd.check /\ triggered = {} /\ ~pending_check

\* C2: on every published frame the four movement flags are false when the
\* win state after the tick's machine step is not PLAYING.
C2_NoMovementOutsidePlaying ==
    (cmd # NoCmd /\ win_state # PLAYING) => \A m \in Movements : ~cmd[m]

\* A frame published outside PLAYING while running with a movement key held.
C2_Witness ==
    /\ cmd # NoCmd
    /\ win_state = WAITING_FOR_ANIMATION_END
    /\ state = "running"
    /\ inputs["rotate_left"]
    /\ ~cmd.rotate_left

\* C3: the win state goes from BLANK_SCREEN_ACTIVE to PLAYING only in a tick
\* that observes frame_number - blank_start_frame >= 60, and every tick in
\* BLANK_SCREEN_ACTIVE that observes it goes to PLAYING.
C3_BlankLastsSixtyFrames ==
    [][/\ (win_state = BLANK_SCREEN_ACTIVE /\ win_state' = PLAYING) =>
            \E rd \in ReadInputs, wo \in BOOLEAN :
                /\ ReadData(rd).frame_number - blank_start_frame
                        >= WIN_BLANK_DURATION_FRAMES
                /\ LoopStep(rd, TRUE, wo)
       /\ \A rd \in ReadInputs, wo \in BOOLEAN :
            ( /\ win_state = BLANK_SCREEN_ACTIVE
              /\ ReadData(rd).frame_number - blank_start_frame
                        >= WIN_BLANK_DURATION_FRAMES
              /\ LoopStep(rd, TRUE, wo) ) => win_state' = PLAYING]_vars

\* C4: a tick in WAITING_FOR_ANIMATION_END that observes is_animating = false
\* moves to BLANK_SCREEN_ACTIVE, records the snapshot's frame_number as
\* blank_start_frame and publishes reset = blank_screen = stop_rendering =
\* true; the ticks that stay in BLANK_SCREEN_ACTIVE publish none of the three.
C4_BlankEntry ==
    [][/\ \A rd \in ReadInputs, po \in BOOLEAN, wo \in BOOLEAN :
            ( /\ win_state = WAITING_FOR_ANIMATION_END
              /\ ~ReadData(rd).is_animating
              /\ LoopStep(rd, po, wo) ) =>
                /\ win_state' = BLANK_SCREEN_ACTIVE
                /\ blank_start_frame' = ReadData(rd).frame_number
                /\ Published
                /\ cmd'.reset /\ cmd'.blank_screen /\ cmd'.stop_rendering
       /\ ( /\ win_state = BLANK_SCREEN_ACTIVE
            /\ win_state' = BLANK_SCREEN_ACTIVE
            /\ Published ) =>
                ~cmd'.reset /\ ~cmd'.blank_screen /\ ~cmd'.stop_rendering]_vars

\* C5: in every reachable state in BLANK_SCREEN_ACTIVE, a tick that observes
\* frame_number - blank_start_frame >= 60 moves to PLAYING, publishes
\* blank_screen = resume_rendering = true with reset and stop_rendering false,
\* and makes the trial index (index + 1) mod length; any other tick stays,
\* publishes neither flag and leaves the index alone.
C5_BlankExit ==
    (win_state = BLANK_SCREEN_ACTIVE /\ loop_scheduled) =>
        \A rd \in ReadInputs, wo \in BOOLEAN :
            \A res \in {LoopResult(rd, TRUE, wo)} :
                /\ res.cmd # NoCmd
                /\ IF ReadData(rd).frame_number - blank_start_frame
                        >= WIN_BLANK_DURATION_FRAMES
                   THEN /\ res.win_state = PLAYING
                        /\ res.cmd.blank_screen /\ res.cmd.resume_rendering
                        /\ ~res.cmd.reset /\ ~res.cmd.stop_rendering
                        /\ res.current_trial_index
                              = (current_trial_index + 1) % Len(trials)
                   ELSE /\ res.win_state = BLANK_SCREEN_ACTIVE
                        /\ ~res.cmd.blank_screen /\ ~res.cmd.resume_rendering
                        /\ res.current_trial_index = current_trial_index

\* The blank screen ended by itself and the second trial became current.
C5_Witness ==
    /\ win_state = PLAYING
    /\ cmd # NoCmd
    /\ cmd.blank_screen /\ cmd.resume_rendering /\ ~cmd.reset
    /\ blank_start_frame = 1
    /\ Len(trials) = 2
    /\ current_trial_index = 1

\* C6: in every reachable state in PLAYING, a tick goes to
\* WAITING_FOR_ANIMATION_END exactly when it observes has_won, and neither way
\* has a side effect: the one-shot flags of its frame are the pending ones,
\* nothing is pushed, and the trial index and blank_start_frame keep their
\* values.
C6_WinSeenNoSideEffect ==
    (win_state = PLAYING /\ loop_scheduled) =>
        \A rd \in ReadInputs, wo \in BOOLEAN :
            \A res \in {LoopResult(rd, TRUE, wo)} :
                /\ res.win_state = IF ReadData(rd).has_won
                                   THEN WAITING_FOR_ANIMATION_END ELSE PLAYING
                /\ res.cmd # NoCmd
                /\ \A f \in OneShots : res.cmd[f] = Pending(f)
                /\ res.pushed = NoPush
                /\ res.current_trial_index = current_trial_index
                /\ res.blank_start_frame = blank_start_frame

\* The tick that saw the win: nothing published but the held movement is cut.
C6_Witness ==
    /\ win_state = WAITING_FOR_ANIMATION_END
    /\ has_won
    /\ cmd # NoCmd
    /\ \A f \in OneShots : ~cmd[f]
    /\ pushed = NoPush
    /\ staged = NoPush
    /\ current_trial_index = 0
    /\ blank_start_frame = 0

\* C7: after a number of advances that is a multiple of the length of the
\* trial list (the length itself first), the trial index and the current
\* trial are those the sequencer started from.
C7_AdvanceCycles ==
    (seq_count % Len(trials) = 0) =>
        /\ current_trial_index = seq_start
        /\ get_current_trial(trials, current_trial_index)
              = get_current_trial(trials, seq_start)

\* Three advances on a list of three trials, started from the second.
C7_Witness ==
    /\ Len(trials) = 3
    /\ seq_start = 1
    /\ seq_count = 3
    /\ get_current_trial(trials, current_trial_index) = Trial(2)

\* C8: the tick that enters BLANK_SCREEN_ACTIVE leaves the trial index alone
\* and pushes one configuration, and the tick that leaves it for PLAYING makes
\* that configuration the current trial.
C8_StagedIsNextCurrent ==
    [][/\ (win_state = WAITING_FOR_ANIMATION_END /\ win_state' = BLANK_SCREEN_ACTIVE) =>
            /\ current_trial_index' = current_trial_index
            /\ pushed' # NoPush
            /\ staged' = pushed'
       /\ (win_state = BLANK_SCREEN_ACTIVE /\ win_state' = PLAYING /\ Published) =>
            get_current_trial(trials, current_trial_index') = staged]_vars

\* The second trial is pushed while the first is still current.
C8_Witness ==
    /\ win_state = BLANK_SCREEN_ACTIVE
    /\ pushed = Trial(2)
    /\ current_trial_index = 0
    /\ get_current_trial(trials, current_trial_index) = Trial(1)

\* C9: a tick in BLANK_SCREEN_ACTIVE that observes a frame_number below
\* blank_start_frame goes to PLAYING.
C9_RegressionEndsBlank ==
    [][\A rd \in ReadInputs, wo \in BOOLEAN :
        ( /\ win_state = BLANK_SCREEN_ACTIVE
          /\ ReadData(rd).frame_number < blank_start_frame
          /\ LoopStep(rd, TRUE, wo) ) => win_state' = PLAYING]_vars

\* The snapshot rd with has_won false.
WithoutWin(rd) == [rd EXCEPT !.snap.has_won = FALSE]

\* C10: in every reachable state outside PLAYING, a tick that observes
\* has_won = true does what it does on the same snapshot with has_won = false
\* (but for the has_won it read).
C10_NoRefire ==
    (win_state # PLAYING /\ loop_scheduled) =>
        \A rd \in ReadInputs, wo \in BOOLEAN :
            ReadData(rd).has_won =>
                \A po \in PushInputs(rd) :
                    /\ ~ReadData(WithoutWin(rd)).has_won
                    /\ [LoopResult(rd, po, wo) EXCEPT !.has_won = FALSE]
                          = LoopResult(WithoutWin(rd), po, wo)

\* A tick past PLAYING worked on a snapshot with has_won = true.
C10_Witness ==
    /\ win_state = BLANK_SCREEN_ACTIVE
    /\ has_won
    /\ cmd # NoCmd

\* C11: in every reachable state, whatever the read meets, read_game_state
\* raises nothing; a read that meets a fault (a reconnection that fails, or a
\* read that fails) returns the default snapshot (frame_number 0, is_animating
\* and has_won false), and the tick works on the snapshot returned.
C11_ReadNeverRaises ==
    \A rd \in ReadInputs :
        \A r \in {read_game_state(inner, rd.ok, rd.snap)} :
            /\ ~r.raised
            /\ ~rd.ok =>
                  /\ r.data = DEFAULT_STATE
                  /\ r.data.frame_number = 0
                  /\ ~r.data.is_animating
                  /\ ~r.data.has_won
            /\ rd.ok => r.data = rd.snap
            /\ loop_scheduled =>
                  \A res \in {LoopResult(rd, TRUE, TRUE)} :
                      /\ res.has_won = r.data.has_won
                      /\ res.served_default = ~rd.ok
                      /\ res.exception => Len(trials) = 0

\* A tick whose read failed worked on the default snapshot, published its
\* frame and scheduled the next tick.
C11_Witness ==
    /\ served_default
    /\ ~has_won
    /\ cmd # NoCmd
    /\ loop_scheduled

\* What a channel operation called on the wrapper state `in` with the fault
\* bit ok must have done, o being what it did: raised nothing, called connect
\* exactly when the wrapper was disconnected, and left the wrapper connected
\* exactly when nothing failed.
ChannelContract(in, ok, o) ==
    /\ ~o.raised
    /\ o.attempted = ~in
    /\ o.inner = ok

\* C12: in every reachable state each of the three channel operations, on a
\* fault, leaves the wrapper disconnected and raises nothing; called on a
\* disconnected wrapper it first calls connect, and does its work when the
\* connection is made; so the wrapper a tick leaves behind is connected
\* exactly when its last channel call went through.
C12_FaultsDisconnectThenReconnect ==
    /\ \A rd \in ReadInputs :
          ChannelContract(inner, rd.ok, read_game_state(inner, rd.ok, rd.snap))
    /\ \A ok \in BOOLEAN :
          /\ ChannelContract(inner, ok, write_commands(inner, ok))
          /\ write_commands(inner, ok).landed = ok
          /\ ChannelContract(inner, ok, write_reset_config(inner, ok))
          /\ write_reset_config(inner, ok).result = ok
    /\ loop_scheduled =>
          \A rd \in ReadInputs, wo \in BOOLEAN :
              \A po \in PushInputs(rd) :
                  \A res \in {LoopResult(rd, po, wo)} :
                      ~res.exception => res.inner = wo

\* The read of a tick failed, which disconnected the wrapper, and the write
\* of the same tick reconnected it.
C12_Witness ==
    /\ served_default
    /\ inner
    /\ cmd # NoCmd

\* C13: no tick ends the tick loop: in every reachable state a next tick is
\* scheduled.
C13_TickLoopNeverStops == loop_scheduled

\* C14: with an empty trial list the sequencer serves the default
\* configuration: get_current_trial returns DEFAULT_CONFIG, and the tick that
\* stages the next trial (in WAITING_FOR_ANIMATION_END, animation over) raises
\* nothing and hands DEFAULT_CONFIG to the channel.
C14_EmptyTrialsFallBack ==
    Len(trials) = 0 =>
        /\ get_current_trial(trials, current_trial_index) = DEFAULT_CONFIG
        /\ (win_state = WAITING_FOR_ANIMATION_END /\ loop_scheduled) =>
              \A rd \in ReadInputs, wo \in BOOLEAN :
                  ~ReadData(rd).is_animating =>
                      \A res \in {LoopResult(rd, TRUE, wo)} :
                          /\ ~res.exception
                          /\ res.pushed = DEFAULT_CONFIG

\* C15: a user reset on an invalid form hands nothing to the channel and
\* leaves the wrapper, the pending reset, the events raised and the win state
\* as they were; one whose push fails leaves the pending reset, the events
\* raised and the win state as they were; and only one whose push goes through
\* makes the reset pending and the win state PLAYING.  None publishes a frame.
C15_ResetRejectedAsAWhole ==
    [][\A valid \in BOOLEAN, ok \in BOOLEAN :
        ResetAttempt(valid, ok) =>
            /\ cmd' = NoCmd
            /\ ~valid =>
                  /\ pushed' = NoPush
                  /\ inner' = inner
            /\ (~valid \/ ~ok) =>
                  /\ pending_reset' = pending_reset
                  /\ triggered' = triggered
                  /\ win_state' = win_state
            /\ (valid /\ ok) =>
                  /\ pushed' = USER_PAYLOAD
                  /\ inner'
                  /\ pending_reset'
                  /\ win_state' = PLAYING]_vars

\* A reset was tried and rejected during the win sequence: the push was made
\* and failed, no reset is pending and the win state is still not PLAYING.
C15_Witness ==
    /\ pushed = USER_PAYLOAD
    /\ cmd = NoCmd
    /\ ~inner
    /\ ~pending_reset
    /\ win_state = WAITING_FOR_ANIMATION_END

\* C16: on every published frame each movement flag is true exactly when its
\* key is held, the run mode is running and the win state after the tick's
\* machine step is PLAYING; so all four are false on a frame published while
\* stopped.  (A tick changes neither the held keys nor the run mode.)
C16_MovementFormula ==
    cmd # NoCmd =>
        /\ \A m \in Movements :
              cmd[m] = (inputs[m] /\ state = "running" /\ win_state = PLAYING)
        /\ state = "stopped" => \A m \in Movements : ~cmd[m]

\* A frame published in PLAYING with a key held while the controller is toggled
\* to stopped.
C16_Witness ==
    /\ cmd # NoCmd
    /\ state = "stopped"
    /\ win_state = PLAYING
    /\ inputs["zoom_in"]
    /\ ~cmd.zoom_in

\* C17: every tick that hands a frame to the channel ends with the five
\* pending flags false, whether or not the write went through, and so does
\* every tick that stops the loop: nothing is kept for a retry.
C17_FailedWriteDropped ==
    [][(Published \/ (loop_scheduled /\ ~loop_scheduled')) =>
          \A f \in OneShots : ~Pending(f)']_vars

\* A frame carrying a check was handed to a channel that did not take it, and
\* the check is no longer pending.
C17_Witness ==
    /\ cmd # NoCmd
    /\ cmd.check
    /\ ~inner
    /\ ~pending_check
    /\ triggered = {}
    /\ loop_scheduled

\* A step of the user: no frame is handed to the channel and the tick loop is
\* as it was.
UserStep == cmd' = NoCmd /\ loop_scheduled' = loop_scheduled

\* C18: outside PLAYING no step of the user sets a held input or a pending
\* flag or changes the win state.
C18_InputsOnlyInPlaying ==
    [][(win_state # PLAYING /\ UserStep) =>
          /\ \A m \in Movements : inputs'[m] => inputs[m]
          /\ \A f \in OneShots : Pending(f)' => Pending(f)
          /\ win_state' = win_state]_vars

\* C19: a published frame carries check = true only when, at the write, the
\* run mode is running and the win state is PLAYING.
C19_CheckOnlyWhenLive ==
    (cmd # NoCmd /\ cmd.check) => (state = "running" /\ win_state = PLAYING)

\* C20: every step that takes the win state from BLANK_SCREEN_ACTIVE to
\* PLAYING publishes a frame with blank_screen = resume_rendering = true.
C20_ResumePairsStop ==
    [][(win_state = BLANK_SCREEN_ACTIVE /\ win_state' = PLAYING) =>
          /\ Published
          /\ cmd'.blank_screen
          /\ cmd'.resume_rendering]_vars

\* C21: in every reachable state in WAITING_FOR_ANIMATION_END, a tick whose
\* push of the staged trial fails stays there and publishes no reset.
C21_ResetCommittedWithConfig ==
    (win_state = WAITING_FOR_ANIMATION_END /\ loop_scheduled) =>
        \A rd \in ReadInputs, wo \in BOOLEAN :
            \A res \in {LoopResult(rd, FALSE, wo)} :
                (res.pushed # NoPush /\ res.cmd # NoCmd) =>
                    /\ res.win_state = WAITING_FOR_ANIMATION_END
                    /\ ~res.cmd.reset

\* C22: a tick that follows a tick which observed has_won = true and ended in
\* PLAYING (the return from the blank screen, the win still reported) does not
\* enter WAITING_FOR_ANIMATION_END.
C22_OneWinOneSequence ==
    [][(win_state = PLAYING /\ cmd # NoCmd /\ has_won) =>
          win_state' # WAITING_FOR_ANIMATION_END]_vars

\* C23: a tick in WAITING_FOR_ANIMATION_END that works on the default snapshot
\* of a failed read stays there, stages nothing, records no blank_start_frame
\* and publishes none of reset, blank_screen, stop_rendering.
C23_DefaultSnapshotInert ==
    [][(win_state = WAITING_FOR_ANIMATION_END /\ Published /\ served_default') =>
          /\ win_state' = WAITING_FOR_ANIMATION_END
          /\ pushed' = NoPush
          /\ blank_start_frame' = blank_start_frame
          /\ ~cmd'.reset /\ ~cmd'.blank_screen /\ ~cmd'.stop_rendering]_vars

\* C24: under SpecLive, if no tick ever stops the tick loop, the machine
\* leaves WAITING_FOR_ANIMATION_END only for BLANK_SCREEN_ACTIVE, and whenever
\* it is outside PLAYING it is eventually in PLAYING again.
C24_WinSequenceEnds ==
    /\ [][win_state = WAITING_FOR_ANIMATION_END =>
            win_state' \in {WAITING_FOR_ANIMATION_END, BLANK_SCREEN_ACTIVE}]_vars
    /\ ([]loop_scheduled) => ((win_state # PLAYING) ~> (win_state = PLAYING))

\* The machine is back in PLAYING after a blank screen that began at a frame
\* the engine reported and lasted until the engine was 60 frames further.
C24_Witness ==
    /\ win_state = PLAYING
    /\ cmd # NoCmd
    /\ cmd.resume_rendering
    /\ blank_start_frame > 0
    /\ engine_frame - blank_start_frame >= WIN_BLANK_DURATION_FRAMES

\* C25: the trial index changes only in a tick that takes the win state from
\* BLANK_SCREEN_ACTIVE to PLAYING, and then to (index + 1) mod length; every
\* other tick and every step of the user leaves it alone.
C25_IndexChangesOnCommitOnly ==
    [][/\ current_trial_index' # current_trial_index =>
            /\ win_state = BLANK_SCREEN_ACTIVE
            /\ win_state' = PLAYING
            /\ Published
            /\ current_trial_index' = next_index(trials, current_trial_index)
       /\ UserStep => current_trial_index' = current_trial_index]_vars

\* The commit of a win sequence on a list of two trials moved the index from
\* the first trial to the second.
C25_Witness ==
    /\ Len(trials) = 2
    /\ current_trial_index = 1
    /\ staged = Trial(2)
    /\ win_state = PLAYING
    /\ cmd # NoCmd
    /\ cmd.resume_rendering

\* C26: with a non-empty trial list the trial index is at least 0 and less
\* than the length of the list in every reachable state.
C26_IndexInRange ==
    Len(trials) > 0 =>
        /\ current_trial_index >= 0
        /\ current_trial_index < Len(trials)

\* The second win sequence on a list of two trials was committed from the
\* last trial: the index wrapped to 0.
C26_Witness ==
    /\ Len(trials) = 2
    /\ staged = Trial(1)
    /\ current_trial_index = 0
    /\ win_state = PLAYING
    /\ cmd # NoCmd
    /\ cmd.resume_rendering

====
